---- MODULE Spec2Model ----
(***************************************************************************)
(* Model of src/project_manager.py: ConversationProject (one transcript)   *)
(* and ProjectManager (the store of transcripts with one active name),     *)
(* driven by a caller that invokes their methods one at a time.            *)
(*                                                                         *)
(* A Python dict keeps its keys in insertion order, so self.projects is a  *)
(* sequence of ConversationProject records, keyed by their name field      *)
(* (create_project stores ConversationProject(project_name) under          *)
(* project_name).                                                          *)
(*                                                                         *)
(* Python hands out objects by reference.  A value returned to the caller  *)
(* is therefore a handle: either an independent value (a bool, None, a     *)
(* number, a deep copy) or a reference into the store (the dict object     *)
(* that get_last_message returns).  The caller may mutate the object it    *)
(* was just handed; what that does to the store depends on the handle.     *)
(*                                                                         *)
(* Model of the dispatch layer of src/app.py: send_message_to_ai and its    *)
(* two adapters, send_message_to_openai and send_message_to_huggingface.   *)
(* One dispatch is one step: it reads the configuration (st.session_state, *)
(* st.secrets), makes at most one request to a provider, whose outcome the *)
(* environment chooses, and returns a result.  trace records the adapters  *)
(* entered and the requests sent by the dispatch whose result is held.     *)
(***************************************************************************)
EXTENDS Naturals, Sequences, FiniteSets, TLC

\* ---------------------------------------------------------------- bounds
\* Project names the caller uses.
Names == {"A", "B", "C"}
\* Roles and contents the caller writes into a message it was handed, and
\* the (role, content) pairs it passes to add_message.
Roles == {"user", "assistant"}
Contents == {"a", "b"}
Inputs == {[role |-> "user", content |-> "a"],
           [role |-> "assistant", content |-> "b"]}
\* Caps on the number of messages stored in the whole store: under Spec,
\* which has all of Names, and under TranscriptSpec, which has one name.
MaxStoreMessages == 1
MaxMessages == 3
TranscriptNames == {"A"}
\* What datetime.now() can give when a project is created: under Spec, and
\* under TranscriptSpec.
StoreTimes == {"t1"}
Timestamps == {"t1", "t2"}

\* Python's None, as a value of current_project_name.
None == "<None>"

VARIABLES
    projects,              \* ProjectManager.projects (dict, insertion order)
    current_project_name,  \* ProjectManager.current_project_name
    call,                  \* the last call the caller made; prev and
                           \* inserted_before are current_project_name and
                           \* ever_inserted as they were before the call
    ret,                   \* what that call returned (a handle)
    ever_inserted,         \* history: some create_project has succeeded
    session_state,         \* st.session_state: the provider and model chosen
    secrets,               \* st.secrets: the names of the keys it holds
    trace                  \* the adapters entered and the requests sent
                           \* by the dispatch whose result is held

\* The state of the dispatch layer.
app == <<session_state, secrets, trace>>

vars == <<projects, current_project_name, call, ret, ever_inserted,
          session_state, secrets, trace>>

\* ------------------------------------------------------- returned handles
RetNone == [kind |-> "none"]
RetBool(b) == [kind |-> "bool", val |-> b]
RetInt(n) == [kind |-> "int", val |-> n]
\* A list object of the caller's own (independent of the store).
RetList(s) == [kind |-> "list", val |-> s]
\* The list object self.messages of the project called p.
RetListRef(p) == [kind |-> "listref", proj |-> p]
\* The dict object stored at self.messages[i] of the project called p.
RetMsgRef(p, i) == [kind |-> "msgref", proj |-> p, idx |-> i]
\* The ConversationProject object stored under the key p.
RetProject(p) == [kind |-> "project", proj |-> p]

\* ------------------------------------------------------------ dict helpers
\* list(self.projects.keys())
Keys(d) == [i \in 1..Len(d) |-> d[i].name]
\* project_name in self.projects
Has(d, n) == \E i \in 1..Len(d) : d[i].name = n
\* self.projects[project_name]
Lookup(d, n) == d[CHOOSE i \in 1..Len(d) : d[i].name = n]
\* del self.projects[project_name]
Del(d, n) == SelectSeq(d, LAMBDA e : e.name # n)

UpdateEveryEntry(d, n, v) == [i \in 1..Len(d) |-> v]

\* self.projects[n] = v for a key already present (the object is updated in place)
Update(d, n, v) == [i \in 1..Len(d) |-> IF d[i].name = n THEN v ELSE d[i]]

RECURSIVE SumLen(_)
SumLen(d) == IF d = <<>> THEN 0 ELSE Len(Head(d).messages) + SumLen(Tail(d))

\* ---------------------------------------------------- ConversationProject
ConversationProject_in_research_mode(project_name, now) ==
    [name |-> project_name,
     messages |-> <<>>,
     created_date |-> now,
     deep_research_mode |-> TRUE,
     message_count |-> 0]

\* ConversationProject.__init__; now is what datetime.now() gives
ConversationProject(project_name, now) ==
    [name |-> project_name,
     messages |-> <<>>,
     created_date |-> now,
     deep_research_mode |-> FALSE,
     message_count |-> 0]

\* Mutant: the new message is put in front (insert(0, ...)).
add_message_in_front(self, role, content) ==
    [self EXCEPT !.messages = <<[role |-> role, content |-> content]>> \o @,
                 !.message_count = @ + 1]

\* add_message: appends {"role": role, "content": content}
add_message(self, role, content) ==
    [self EXCEPT !.messages = Append(@, [role |-> role, content |-> content]),
                 !.message_count = @ + 1]

\* Mutant: the list is handed out without the copy (return self.messages).
get_messages_uncopied(self) == RetListRef(self.name)

\* get_messages: copy.deepcopy(self.messages), a list of the caller's own
get_messages(self) == RetList(self.messages)

\* Mutant: the counter is not reset.
clear_messages_keeps_count(self) == [self EXCEPT !.messages = <<>>]

clear_messages(self) ==
    [self EXCEPT !.messages = <<>>, !.message_count = 0]

get_summary(self) ==
    [name |-> self.name,
     created_date |-> self.created_date,
     message_count |-> self.message_count,
     deep_research_mode |-> self.deep_research_mode]

toggle_research_mode_sets(self) == [self EXCEPT !.deep_research_mode = TRUE]

\* toggle_research_mode: self.deep_research_mode = not self.deep_research_mode
toggle_research_mode(self) ==
    [self EXCEPT !.deep_research_mode = ~self.deep_research_mode]

get_last_message_first(self) ==
    IF Len(self.messages) > 0 THEN RetMsgRef(self.name, 1) ELSE RetNone

\* get_last_message: self.messages[-1], the stored dict itself, or None
get_last_message(self) ==
    IF Len(self.messages) > 0
    THEN RetMsgRef(self.name, Len(self.messages))
    ELSE RetNone

\* The caller invokes a method of the project stored under the key n.
call_add_message(n, role, content) ==
    /\ UNCHANGED app
    /\ Has(projects, n)
    /\ projects' = Update(projects, n, add_message(Lookup(projects, n), role, content))
    /\ call' = [op |-> "add_message", name |-> n,
                role |-> role, content |-> content]
    /\ ret' = RetNone
    /\ UNCHANGED <<current_project_name, ever_inserted>>

call_get_messages(n) ==
    /\ UNCHANGED app
    /\ Has(projects, n)
    /\ call' = [op |-> "get_messages", name |-> n]
    /\ ret' = get_messages(Lookup(projects, n))
    /\ UNCHANGED <<projects, current_project_name, ever_inserted>>

call_clear_messages(n) ==
    /\ UNCHANGED app
    /\ Has(projects, n)
    /\ projects' = Update(projects, n, clear_messages(Lookup(projects, n)))
    /\ call' = [op |-> "clear_messages", name |-> n,
                had |-> Len(Lookup(projects, n).messages)]
    /\ ret' = RetNone
    /\ UNCHANGED <<current_project_name, ever_inserted>>

call_get_summary(n) ==
    /\ UNCHANGED app
    /\ Has(projects, n)
    /\ call' = [op |-> "get_summary", name |-> n]
    /\ ret' = [kind |-> "summary", val |-> get_summary(Lookup(projects, n))]
    /\ UNCHANGED <<projects, current_project_name, ever_inserted>>

call_toggle_research_mode(n) ==
    /\ UNCHANGED app
    /\ Has(projects, n)
    /\ projects' = Update(projects, n, toggle_research_mode(Lookup(projects, n)))
    /\ call' = [op |-> "toggle_research_mode", name |-> n]
    /\ ret' = RetNone
    /\ UNCHANGED <<current_project_name, ever_inserted>>

call_get_last_message(n) ==
    /\ UNCHANGED app
    /\ Has(projects, n)
    /\ call' = [op |-> "get_last_message", name |-> n]
    /\ ret' = get_last_message(Lookup(projects, n))
    /\ UNCHANGED <<projects, current_project_name, ever_inserted>>

\* ------------------------------------------------------------ ProjectManager
\* create_project, lines 354-357: the new project becomes current when
\* nothing is selected.
\* Mutants: the new project is never selected; it is always selected.
create_selects_never(cur, project_name) == cur
create_selects_always(cur, project_name) == project_name

create_selects(cur, project_name) ==
    IF cur = None THEN project_name ELSE cur

\* History: the call c that returned r has deleted the project `name`, which
\* held messages and was in research mode.
Deleted(c, r, name) ==
    /\ c.op = "delete_project"
    /\ r = RetBool(TRUE)
    /\ c.name = name
    /\ c.deleted.message_count > 0
    /\ c.deleted.deep_research_mode

\* Mutant: the existence check is missing, so the dict assignment replaces
\* the project stored under the name.
create_project_unchecked(project_name, now) ==
    /\ UNCHANGED app
    /\ call' = [op |-> "create_project", name |-> project_name,
                prev |-> current_project_name, inserted_before |-> ever_inserted,
                recreated |-> Deleted(call, ret, project_name)]
    /\ projects' = IF Has(projects, project_name)
                   THEN Update(projects, project_name, ConversationProject(project_name, now))
                   ELSE Append(projects, ConversationProject(project_name, now))
    /\ current_project_name' = create_selects(current_project_name, project_name)
    /\ ever_inserted' = TRUE
    /\ ret' = RetBool(TRUE)

create_project(project_name, now) ==
    /\ UNCHANGED app
    /\ call' = [op |-> "create_project", name |-> project_name,
                prev |-> current_project_name, inserted_before |-> ever_inserted,
                recreated |-> Deleted(call, ret, project_name)]
    /\ IF Has(projects, project_name)
       THEN /\ ret' = RetBool(FALSE)
            /\ UNCHANGED <<projects, current_project_name, ever_inserted>>
       ELSE /\ projects' = Append(projects, ConversationProject(project_name, now))
            /\ current_project_name' =
                   create_selects(current_project_name, project_name)
            /\ ever_inserted' = TRUE
            /\ ret' = RetBool(TRUE)

\* delete_project, lines 391-398: the selection after the current project
\* was deleted.
\* Mutants: the selection is dropped; the last remaining project is taken.
delete_reassign_none(remaining_projects) == None
delete_reassign_last(remaining_projects) ==
    IF Len(remaining_projects) > 0
    THEN remaining_projects[Len(remaining_projects)]
    ELSE None

delete_reassign(remaining_projects) ==
    IF Len(remaining_projects) > 0 THEN remaining_projects[1] ELSE None

delete_project(project_name) ==
    /\ UNCHANGED app
    /\ call' = [op |-> "delete_project", name |-> project_name,
                prev |-> current_project_name,
                deleted |-> IF Has(projects, project_name)
                            THEN get_summary(Lookup(projects, project_name))
                            ELSE None]
    /\ IF ~Has(projects, project_name)
       THEN /\ ret' = RetBool(FALSE)
            /\ UNCHANGED <<projects, current_project_name, ever_inserted>>
       ELSE /\ projects' = Del(projects, project_name)
            /\ current_project_name' =
                   IF current_project_name = project_name
                   THEN delete_reassign(Keys(projects'))
                   ELSE current_project_name
            /\ ret' = RetBool(TRUE)
            /\ UNCHANGED ever_inserted

\* Mutant: the existence check is missing.
switch_to_project_unchecked(project_name) ==
    /\ UNCHANGED app
    /\ call' = [op |-> "switch_to_project", name |-> project_name,
                prev |-> current_project_name]
    /\ current_project_name' = project_name
    /\ ret' = RetBool(TRUE)
    /\ UNCHANGED <<projects, ever_inserted>>

switch_to_project(project_name) ==
    /\ UNCHANGED app
    /\ call' = [op |-> "switch_to_project", name |-> project_name,
                prev |-> current_project_name]
    /\ IF ~Has(projects, project_name)
       THEN /\ ret' = RetBool(FALSE)
            /\ UNCHANGED <<projects, current_project_name, ever_inserted>>
       ELSE /\ current_project_name' = project_name
            /\ ret' = RetBool(TRUE)
            /\ UNCHANGED <<projects, ever_inserted>>

current_project_or_first(d, cur) ==
    IF d = <<>> THEN RetNone ELSE RetProject(d[1].name)

\* What get_current_project returns on the store (d, cur).
current_project_or_none(d, cur) ==
    IF cur = None THEN RetNone
    ELSE IF ~Has(d, cur) THEN RetNone
    ELSE RetProject(cur)

get_current_project ==
    /\ UNCHANGED app
    /\ call' = [op |-> "get_current_project"]
    /\ ret' = current_project_or_none(projects, current_project_name)
    /\ UNCHANGED <<projects, current_project_name, ever_inserted>>

get_project_count ==
    /\ UNCHANGED app
    /\ call' = [op |-> "get_project_count"]
    /\ ret' = RetInt(Len(projects))
    /\ UNCHANGED <<projects, current_project_name, ever_inserted>>

list_keys_reversed(d) == [i \in 1..Len(d) |-> d[Len(d) + 1 - i].name]

\* list(self.projects.keys())
list_keys(d) == Keys(d)

get_all_project_names ==
    /\ UNCHANGED app
    /\ call' = [op |-> "get_all_project_names"]
    /\ ret' = [kind |-> "names", val |-> list_keys(projects)]
    /\ UNCHANGED <<projects, current_project_name, ever_inserted>>

get_all_projects_summary ==
    /\ UNCHANGED app
    /\ call' = [op |-> "get_all_projects_summary"]
    /\ ret' = [kind |-> "summaries",
               val |-> [i \in 1..Len(projects) |-> get_summary(projects[i])]]
    /\ UNCHANGED <<projects, current_project_name, ever_inserted>>

\* ------------------------------------------------------------- the caller
\* The list a handle returned by get_messages denotes, given the store d.
ListOf(d, h) ==
    IF h.kind = "list" THEN h.val ELSE Lookup(d, h.proj).messages

\* The message a handle returned by get_last_message denotes in the store d.
MsgOf(d, h) == Lookup(d, h.proj).messages[h.idx]

\* What one field assignment, message["role"] = r or message["content"] = c,
\* can make of a dict.
MsgMutations(m) ==
    {[m EXCEPT !.role = r] : r \in Roles \ {m.role}}
        \cup {[m EXCEPT !.content = c] : c \in Contents \ {m.content}}

\* What one list operation, s.append(m), s.pop() or an assignment to a field
\* of s[i], can make of a list of dicts.
ListMutations(s) ==
    {Append(s, m) : m \in Inputs}
        \cup {SubSeq(s, 1, Len(s) - 1) : i \in {1} \cap DOMAIN s}
        \cup UNION {{[s EXCEPT ![i] = m] : m \in MsgMutations(s[i])} : i \in DOMAIN s}

\* The caller mutates, once, the object the last read handed to it.  An
\* independent list changes alone; a reference changes the stored object.
caller_mutates ==
    /\ UNCHANGED app
    /\ call.op \in {"get_messages", "get_last_message"}
    /\ ret.kind \in {"list", "listref", "msgref"}
    /\ call' = [op |-> "mutate", name |-> call.name]
    /\ IF ret.kind = "list"
       THEN /\ \E s \in ListMutations(ret.val) : ret' = RetList(s)
            /\ UNCHANGED projects
       ELSE LET self == Lookup(projects, ret.proj) IN
            /\ ret' = ret
            /\ \E s \in (IF ret.kind = "listref"
                         THEN ListMutations(self.messages)
                         ELSE {[self.messages EXCEPT ![ret.idx] = m] :
                                  m \in MsgMutations(self.messages[ret.idx])}) :
                   projects' = Update(projects, ret.proj, [self EXCEPT !.messages = s])
    /\ UNCHANGED <<current_project_name, ever_inserted>>

\* ------------------------------------------------------------------------
\* The dispatch layer of src/app.py.

\* MAX_CONTEXT_MESSAGES and API_TIMEOUT, the configuration constants.
MAX_CONTEXT_MESSAGES == 10
API_TIMEOUT == 30

\* The longest conversation history handed to a dispatch, and the longest
\* text a provider answers with.
MaxHistory == 15
MaxText == 3

\* The values st.session_state.selected_api_provider can have after
\* initialize_session_state: "openai", or whatever API_PROVIDER says in
\* secrets.toml, lower-cased.
Providers == {"openai", "huggingface", "local"}

\* The keys get_api_key looks up in st.secrets, and a value for each.
SecretNames == {"OPENAI_API_KEY", "HF_API_KEY"}
SecretValue(k) == IF k = "OPENAI_API_KEY" THEN "sk-1" ELSE "hf_1"

\* Characters of a provider's answer, and the ones str.strip() removes.
Whitespace == {" ", "\n"}
TextChars == Whitespace \cup {"a"}
Texts == UNION {[1..n -> TextChars] : n \in 0..MaxText}

\* A conversation history of L messages as get_messages returns it: the
\* roles alternate from `first`, the i-th content is the numeral of i.
History(L, first) ==
    [i \in 1..L |->
        [role |-> IF i % 2 = 1 THEN first
                  ELSE CHOOSE r \in Roles : r # first,
         content |-> ToString(i)]]
Histories == {History(L, first) : L \in 0..MaxHistory, first \in Roles}
UserMessages == {"q"}

FirstN(s, n) == IF Len(s) <= n THEN s ELSE SubSeq(s, 1, n)

\* s[-n:] for n > 0
LastN(s, n) ==
    IF Len(s) <= n THEN s ELSE SubSeq(s, Len(s) - n + 1, Len(s))

\* str.strip(): the text without its leading and trailing whitespace
RECURSIVE lstrip(_)
lstrip(s) ==
    IF s # <<>> /\ Head(s) \in Whitespace THEN lstrip(Tail(s)) ELSE s
RECURSIVE rstrip(_)
rstrip(s) ==
    IF s # <<>> /\ s[Len(s)] \in Whitespace
    THEN rstrip(SubSeq(s, 1, Len(s) - 1))
    ELSE s
strip_leading_only(s) == lstrip(s)
strip(s) == rstrip(lstrip(s))

\* str(error) of the exceptions a request can raise, as sequences of words.
ErrorTexts ==
    { <<"Authentication", "failed">>,
      <<"Incorrect", "API", "key", "provided">>,
      <<"You", "exceeded", "your", "quota">>,
      <<"Billing", "hard", "limit", "reached">>,
      <<"quota", "of", "this", "API", "key", "exceeded">>,
      <<"Connection", "error">> }

\* str.lower() of a word
Lower(w) ==
    CASE w = "Authentication" -> "authentication"
      [] w = "Incorrect" -> "incorrect"
      [] w = "API" -> "api"
      [] w = "You" -> "you"
      [] w = "Billing" -> "billing"
      [] w = "Connection" -> "connection"
      [] w = "Request" -> "request"
      [] OTHER -> w
lower(text) == [i \in DOMAIN text |-> Lower(text[i])]

\* `word in text` and `"w1 w2" in text` on a text of words
HasWord(text, w) == \E i \in DOMAIN text : text[i] = w
HasWords(text, w1, w2) ==
    \E i \in 1..(Len(text) - 1) : text[i] = w1 /\ text[i + 1] = w2


\* What the provider does with the one request of a dispatch.  For the chat
\* adapter: an answer whose content is a text, an answer without content, an
\* answer without choices, no answer within the timeout, or an exception of
\* the client (a refusal by the provider, a failure of the transport).
OpenAIOutcomes ==
    {[kind |-> "text", raw |-> t] : t \in Texts}
        \cup {[kind |-> "no_content"], [kind |-> "no_choices"],
              [kind |-> "timeout"]}
        \cup {[kind |-> "raises", error |-> e] : e \in ErrorTexts}

\* For the completion adapter: status 200 with a generated text, another
\* status, status 200 with a body that is not [{"generated_text": ...}], no
\* answer within the timeout, or an exception of the transport.
StatusCodes == {401, 429, 503}
BadBodies ==
    { [type |-> "KeyError", text |-> <<"0">>],
      [type |-> "IndexError", text |-> <<"list", "index", "out", "of", "range">>],
      [type |-> "JSONDecodeError", text |-> <<"Expecting", "value">>] }
HFOutcomes ==
    {[kind |-> "text", raw |-> t] : t \in Texts}
        \cup {[kind |-> "status", status_code |-> c] : c \in StatusCodes}
        \cup {[kind |-> "bad_body", error |-> b] : b \in BadBodies}
        \cup {[kind |-> "timeout"]}
        \cup {[kind |-> "raises", error |-> e] : e \in ErrorTexts}

\* {"success": ..., "response": ...}; a response is a sequence of pieces of
\* text.  The cross mark that opens every failure message is written (x).
Result(success, response) ==
    [kind |-> "result", success |-> success, response |-> response]
\* An exception on its way up.
Raised(type, text) == [kind |-> "raise", type |-> type, text |-> text]

\* The events of trace.
Enter(adapter) == [ev |-> "enter", adapter |-> adapter]

get_api_key_or_default(provider) ==
    IF provider = "openai" THEN SecretValue("OPENAI_API_KEY")
    ELSE SecretValue("HF_API_KEY")

\* get_api_key: st.secrets["OPENAI_API_KEY"] for "openai", st.secrets
\* ["HF_API_KEY"] otherwise; None when the key is not there.
get_api_key(provider) ==
    LET k == IF provider = "openai" THEN "OPENAI_API_KEY" ELSE "HF_API_KEY"
    IN  IF k \in DOMAIN secrets THEN secrets[k] ELSE None

\* The methodology instructions followed by the knowledge base.
methodology_instructions(use_deep_research) ==
    IF use_deep_research THEN "DEEP_RESEARCH_INSTRUCTIONS"
    ELSE "NORMAL_MODE_INSTRUCTIONS"

openai_params_normal(use_deep_research) ==
    [temperature |-> "0.7", max_tokens |-> 1000]

\* temperature and max_tokens of the chat adapter
openai_params(use_deep_research) ==
    IF use_deep_research
    THEN [temperature |-> "0.5", max_tokens |-> 2500]
    ELSE [temperature |-> "0.7", max_tokens |-> 1000]

\* temperature and max_length of the completion adapter
hf_params(use_deep_research) ==
    IF use_deep_research
    THEN [temperature |-> "0.5", max_length |-> 1500]
    ELSE [temperature |-> "0.7", max_length |-> 500]


\* The chat adapter's call of client.chat.completions.create: the system
\* prompt, the recent messages copied field by field, the user's message.
openai_request(api_key, user_message, conversation_history, use_deep_research) ==
    LET recent_messages == LastN(conversation_history, MAX_CONTEXT_MESSAGES)
        params == openai_params(use_deep_research)
    IN  [ev |-> "request",
         adapter |-> "openai",
         api_key |-> api_key,
         model |-> session_state.selected_openai_model,
         messages |->
             <<[role |-> "system",
                content |-> methodology_instructions(use_deep_research)]>>
             \o [i \in DOMAIN recent_messages |->
                    [role |-> recent_messages[i].role,
                     content |-> recent_messages[i].content]]
             \o <<[role |-> "user", content |-> user_message]>>,
         temperature |-> params.temperature,
         max_tokens |-> params.max_tokens,
         timeout |-> API_TIMEOUT]

\* One line of the completion adapter's prompt: "User: {content}\n" for the
\* role "user", "Assistant: {content}\n" for every other role.
prompt_line(message) ==
    IF message.role = "user" THEN <<"User: ", message.content>>
    ELSE <<"Assistant: ", message.content>>

\* The completion adapter's call of requests.post: the prompt is the
\* instructions, one line per recent message, the user's line and the
\* opening of the assistant's line.
hf_request(api_key, user_message, conversation_history, use_deep_research) ==
    LET recent_messages == LastN(conversation_history, MAX_CONTEXT_MESSAGES)
        params == hf_params(use_deep_research)
    IN  [ev |-> "request",
         adapter |-> "huggingface",
         api_key |-> api_key,
         model |-> session_state.selected_hf_model,
         inputs |->
             [head |-> methodology_instructions(use_deep_research),
              lines |-> [i \in DOMAIN recent_messages |->
                            prompt_line(recent_messages[i])]
                        \o <<<<"User: ", user_message>>>>,
              tail |-> "Assistant: "],
         parameters |-> [max_length |-> params.max_length,
                         temperature |-> params.temperature,
                         return_full_text |-> FALSE],
         timeout |-> API_TIMEOUT]

\* The rest of the chat adapter's try block, once the provider has done
\* `outcome`: response.choices[0].message.content.strip().
openai_try(outcome) ==
    CASE outcome.kind = "text" -> Result(TRUE, strip(outcome.raw))
      [] outcome.kind = "no_content" ->
             Raised("AttributeError",
                    <<"NoneType", "object", "has", "no", "attribute", "strip">>)
      [] outcome.kind = "no_choices" ->
             Raised("IndexError", <<"list", "index", "out", "of", "range">>)
      [] outcome.kind = "timeout" ->
             Raised("APITimeoutError", <<"Request", "timed", "out">>)
      [] outcome.kind = "raises" -> Raised("APIError", outcome.error)

\* The class the chat adapter gives an error message.
openai_error_class_generic(error_message) == "generic"
openai_error_class_quota_first(error_message) ==
    LET l == lower(error_message)
    IN  IF HasWord(l, "quota") \/ HasWord(l, "billing") THEN "quota"
        ELSE IF HasWord(l, "authentication") \/ HasWords(l, "api", "key")
        THEN "authentication"
        ELSE "generic"
openai_error_class(error_message) ==
    LET l == lower(error_message)
    IN  IF HasWord(l, "authentication") \/ HasWords(l, "api", "key")
        THEN "authentication"
        ELSE IF HasWord(l, "quota") \/ HasWord(l, "billing")
        THEN "quota"
        ELSE "generic"

\* The chat adapter's `except Exception as error`.
openai_except(error) ==
    LET error_message == error.text
        class == openai_error_class(error_message)
    IN  IF class = "authentication"
        THEN Result(FALSE, <<"(x) Invalid OpenAI API key. Please check your ",
                             "OPENAI_API_KEY", " in secrets.toml">>)
        ELSE IF class = "quota"
        THEN Result(FALSE, <<"(x) OpenAI API quota exceeded. Please check ",
                             "your billing at ",
                             "https://platform.openai.com/account/billing">>)
        ELSE Result(FALSE, <<"(x) OpenAI API Error: ">> \o error_message)

\* The rest of the completion adapter's try block, once the provider has
\* done `outcome`: response.json()[0]["generated_text"].strip() for status
\* 200, the status message otherwise.
hf_try(outcome) ==
    CASE outcome.kind = "text" -> Result(TRUE, strip(outcome.raw))
      [] outcome.kind = "status" ->
             Result(FALSE, <<"(x) API Error: Status code ",
                             ToString(outcome.status_code),
                             ". The AI service might be busy. ",
                             "Try again in a moment.">>)
      [] outcome.kind = "bad_body" ->
             Raised(outcome.error.type, outcome.error.text)
      [] outcome.kind = "timeout" ->
             Raised("Timeout", <<"Read", "timed", "out">>)
      [] outcome.kind = "raises" -> Raised("ConnectionError", outcome.error)

hf_except_timeout_escapes(error) ==
    IF error.type = "Timeout" THEN error
    ELSE Result(FALSE, <<"(x) Unexpected error: ">> \o error.text)

\* The completion adapter's `except requests.exceptions.Timeout` and
\* `except Exception as error`.
hf_except(error) ==
    IF error.type = "Timeout"
    THEN Result(FALSE, <<"(x) Request timed out after ",
                         ToString(API_TIMEOUT),
                         " seconds. The AI service might be overloaded. ",
                         "Please try again.">>)
    ELSE Result(FALSE, <<"(x) Unexpected error: ">> \o error.text)

\* The event of trace that records what the provider did with the request.
Answer(outcome) == [ev |-> "answer", outcome |-> outcome]

\* send_message_to_openai: the result, and the events of the call.
send_message_to_openai(user_message, conversation_history, use_deep_research, outcome) ==
    LET api_key == get_api_key("openai")
        attempt == openai_try(outcome)
    IN  IF api_key = None
        THEN [result |->
                  Result(FALSE, <<"(x) OpenAI API key not found. Please set ",
                                  "OPENAI_API_KEY",
                                  " in .streamlit/secrets.toml">>),
              trace |-> <<Enter("openai")>>]
        ELSE [result |-> IF attempt.kind = "raise" THEN openai_except(attempt)
                         ELSE attempt,
              trace |-> <<Enter("openai"),
                          openai_request(api_key, user_message,
                                         conversation_history,
                                         use_deep_research),
                          Answer(outcome)>>]

send_message_to_huggingface_retrying(user_message, conversation_history, use_deep_research, outcome) ==
    LET api_key == get_api_key("huggingface")
        attempt == hf_try(outcome)
        result == IF attempt.kind = "raise" THEN hf_except(attempt) ELSE attempt
        request == hf_request(api_key, user_message, conversation_history,
                              use_deep_research)
    IN  IF api_key = None
        THEN [result |-> Result(FALSE, <<"HF_API_KEY">>),
              trace |-> <<Enter("huggingface")>>]
        ELSE [result |-> result,
              trace |-> <<Enter("huggingface"), request, Answer(outcome)>>
                        \o IF result.success THEN <<>>
                           ELSE <<request, Answer(outcome)>>]

\* send_message_to_huggingface: the result, and the events of the call.
send_message_to_huggingface(user_message, conversation_history, use_deep_research, outcome) ==
    LET api_key == get_api_key("huggingface")
        attempt == hf_try(outcome)
    IN  IF api_key = None
        THEN [result |->
                  Result(FALSE, <<"(x) Hugging Face API key not found. ",
                                  "Please set ", "HF_API_KEY",
                                  " in .streamlit/secrets.toml">>),
              trace |-> <<Enter("huggingface")>>]
        ELSE [result |-> IF attempt.kind = "raise" THEN hf_except(attempt)
                         ELSE attempt,
              trace |-> <<Enter("huggingface"),
                          hf_request(api_key, user_message,
                                     conversation_history, use_deep_research),
                          Answer(outcome)>>]

adapter_for_named(provider) ==
    IF provider = "huggingface" THEN "huggingface" ELSE "openai"

\* The adapter send_message_to_ai calls for a provider value.
adapter_for(provider) ==
    IF provider = "openai" THEN "openai" ELSE "huggingface"

\* What a provider can do with the request of an adapter.
Outcomes(adapter) ==
    IF adapter = "openai" THEN OpenAIOutcomes ELSE HFOutcomes

\* send_message_to_ai
send_message_to_ai(user_message, conversation_history, use_deep_research, outcome) ==
    LET provider == session_state.selected_api_provider
    IN  IF adapter_for(provider) = "openai"
        THEN send_message_to_openai(user_message, conversation_history,
                                    use_deep_research, outcome)
        ELSE send_message_to_huggingface(user_message, conversation_history,
                                         use_deep_research, outcome)

\* The UI is between two dispatches: the result of the last one was shown.
Idle == call.op # "send_message_to_ai"

\* One dispatch: the caller calls send_message_to_ai, the provider does
\* `outcome` with the request if one is sent, the result comes back.
call_send_message_to_ai(user_message, conversation_history, use_deep_research) ==
    /\ Idle
    /\ \E outcome \in
             Outcomes(adapter_for(session_state.selected_api_provider)) :
           LET r == send_message_to_ai(user_message, conversation_history,
                                       use_deep_research, outcome)
           IN  /\ ret' = r.result
               /\ trace' = r.trace
    /\ call' = [op |-> "send_message_to_ai",
                user_message |-> user_message,
                conversation_history |-> conversation_history,
                use_deep_research |-> use_deep_research]
    /\ UNCHANGED <<projects, current_project_name, ever_inserted,
                   session_state, secrets>>

\* The caller shows result["response"] and is ready for the next message.
show_result ==
    /\ call.op = "send_message_to_ai"
    /\ call' = [op |-> "show_result"]
    /\ ret' = RetNone
    /\ trace' = <<>>
    /\ UNCHANGED <<projects, current_project_name, ever_inserted,
                   session_state, secrets>>

\* The sidebar's provider selectbox.
ProviderOptions == {"OpenAI", "Hugging Face"}
select_api_provider(selected_provider) ==
    /\ Idle
    /\ session_state' =
           [session_state EXCEPT !.selected_api_provider =
               IF selected_provider = "OpenAI" THEN "openai"
               ELSE "huggingface"]
    /\ call' = [op |-> "select_api_provider"]
    /\ ret' = RetNone
    /\ UNCHANGED <<projects, current_project_name, ever_inserted,
                   secrets, trace>>

Init ==
    /\ projects = <<>>
    /\ current_project_name = None
    /\ call = [op |-> "__init__"]
    /\ ret = RetNone
    /\ ever_inserted = FALSE
    /\ session_state = [project_manager |-> TRUE,
                        selected_api_provider |-> "openai",
                        selected_openai_model |-> "gpt-3.5-turbo",
                        selected_hf_model |-> "microsoft/DialoGPT-medium"]
    /\ secrets = [k \in {} |-> SecretValue(k)]
    /\ trace = <<>>

\* Every call the caller can make on projects named in `names`, created at a
\* time in `times`, with the store holding at most `cap` messages.
NextFor(names, cap, times) ==
    \/ \E n \in names, now \in times : create_project(n, now)
    \/ \E n \in names : delete_project(n)
    \/ \E n \in names : switch_to_project(n)
    \/ get_current_project
    \/ get_project_count
    \/ get_all_project_names
    \/ get_all_projects_summary
    \/ \E n \in names, m \in Inputs :
           SumLen(projects) < cap /\ call_add_message(n, m.role, m.content)
    \/ \E n \in names : call_get_messages(n)
    \/ \E n \in names : call_clear_messages(n)
    \/ \E n \in names : call_get_summary(n)
    \/ \E n \in names : call_toggle_research_mode(n)
    \/ \E n \in names : call_get_last_message(n)
    \/ caller_mutates

\* The store with several projects and short transcripts.
Next == NextFor(Names, MaxStoreMessages, StoreTimes)
Spec == Init /\ [][Next]_vars

\* One project with longer transcripts.
TranscriptNext == NextFor(TranscriptNames, MaxMessages, Timestamps)
TranscriptSpec == Init /\ [][TranscriptNext]_vars

\* The dispatch layer on its own: the store is as constructed, the provider
\* is what initialize_session_state made of secrets.toml, and secrets.toml
\* holds any of the keys.
DispatchInit ==
    /\ projects = <<>>
    /\ current_project_name = None
    /\ call = [op |-> "__init__"]
    /\ ret = RetNone
    /\ ever_inserted = FALSE
    /\ \E provider \in Providers :
           session_state = [project_manager |-> TRUE,
                            selected_api_provider |-> provider,
                            selected_openai_model |-> "gpt-3.5-turbo",
                            selected_hf_model |-> "microsoft/DialoGPT-medium"]
    /\ \E present \in SUBSET SecretNames :
           secrets = [k \in present |-> SecretValue(k)]
    /\ trace = <<>>

DispatchNext ==
    \/ \E user_message \in UserMessages, conversation_history \in Histories,
          use_deep_research \in BOOLEAN :
           call_send_message_to_ai(user_message, conversation_history,
                                   use_deep_research)
    \/ show_result
    \/ \E selected_provider \in ProviderOptions :
           select_api_provider(selected_provider)
DispatchSpec == DispatchInit /\ [][DispatchNext]_vars

\* ------------------------------------------------------------------------
\* The UI flow of src/app.py.  One step is one run of the script, main(),
\* under one event of the page the previous run drew: initialize_session_state,
\* render_sidebar, render_chat_interface.  A run that ends in st.rerun() is
\* followed by a run without event, which changes nothing.

\* The default project, and what the user can type as a project name.
DefaultProject == "General Questions"
NameInputs == {"", " ", "A", " A ", "General Questions"}
\* new_project_name.strip()
StripName(text) ==
    CASE text = " " -> ""
      [] text = " A " -> "A"
      [] OTHER -> text

\* The model dropdowns of the sidebar, in their order.
OpenAIModels == <<"gpt-3.5-turbo", "gpt-4o-mini", "gpt-4">>
HFModels == <<"microsoft/DialoGPT-medium", "gpt2",
              "meta-llama/Llama-2-7b-chat-hf">>
Range(f) == {f[i] : i \in DOMAIN f}

\* The store as a value: the manager's two fields.
Store(d, cur) == [projects |-> d, current_project_name |-> cur]

needs_project_manager_always(ss) == TRUE

\* "project_manager" not in st.session_state
needs_project_manager(ss) == ~ss.project_manager

\* initialize_session_state: every key that is missing gets its default;
\* configured_provider is st.secrets.get("API_PROVIDER", "openai").lower().
initialize_session_state(ss, configured_provider) ==
    [project_manager |-> TRUE,
     selected_api_provider |->
         IF ss.selected_api_provider = None THEN configured_provider
         ELSE ss.selected_api_provider,
     selected_openai_model |->
         IF ss.selected_openai_model = None THEN "gpt-3.5-turbo"
         ELSE ss.selected_openai_model,
     selected_hf_model |->
         IF ss.selected_hf_model = None THEN "microsoft/DialoGPT-medium"
         ELSE ss.selected_hf_model]

\* initialize_session_state, the store: ProjectManager() and
\* create_project("General Questions") when the manager is missing.
initial_store(ss, st, now) ==
    IF needs_project_manager(ss)
    THEN Store(<<ConversationProject(DefaultProject, now)>>,
               create_selects(None, DefaultProject))
    ELSE st

\* What a selectbox over `options` returns: the user's choice in the run the
\* choice triggers, otherwise the option at `index`, which is the place of
\* `current` in the options, or the first option.
selectbox(options, current, chosen) ==
    IF chosen # None THEN chosen
    ELSE IF current \in Range(options) THEN current
    ELSE options[1]

\* render_sidebar, AI Configuration: the provider selectbox, then the model
\* selectbox of the provider selected.
sidebar_configuration(ss, event) ==
    LET selected_provider ==
            selectbox(<<"OpenAI", "Hugging Face">>,
                      IF ss.selected_api_provider = "openai" THEN "OpenAI"
                      ELSE "Hugging Face",
                      IF event.kind = "provider" THEN event.option ELSE None)
        provider == IF selected_provider = "OpenAI" THEN "openai"
                    ELSE "huggingface"
        chosen == IF event.kind = "model" THEN event.model ELSE None
    IN  IF provider = "openai"
        THEN [ss EXCEPT !.selected_api_provider = provider,
                        !.selected_openai_model =
                            selectbox(OpenAIModels, @, chosen)]
        ELSE [ss EXCEPT !.selected_api_provider = provider,
                        !.selected_hf_model = selectbox(HFModels, @, chosen)]

\* render_sidebar, the Create Project button.
sidebar_create(st, text, now) ==
    LET name == StripName(text)
    IN  IF text = "" \/ name = "" \/ Has(st.projects, name) THEN st
        ELSE Store(Append(st.projects, ConversationProject(name, now)),
                   create_selects(st.current_project_name, name))

\* render_sidebar, the button of a project in the list.
sidebar_switch(st, name) ==
    IF Has(st.projects, name) THEN Store(st.projects, name) ELSE st

\* manager.get_current_project(): whether it returns a project, and which.
has_current_project(st) ==
    /\ st.current_project_name # None
    /\ Has(st.projects, st.current_project_name)
current_project(st) == Lookup(st.projects, st.current_project_name)

\* render_sidebar, the Deep Research toggle: the model it selects.
toggle_model(ss, research_mode) ==
    IF research_mode
    THEN IF ss.selected_api_provider = "openai"
         THEN [ss EXCEPT !.selected_openai_model = "gpt-4"]
         ELSE [ss EXCEPT !.selected_hf_model = "meta-llama/Llama-2-7b-chat-hf"]
    ELSE IF ss.selected_api_provider = "openai"
         THEN [ss EXCEPT !.selected_openai_model = "gpt-3.5-turbo"]
         ELSE [ss EXCEPT !.selected_hf_model = "microsoft/DialoGPT-medium"]

delete_offered_always(all_project_names) == TRUE

\* render_sidebar: the Delete Project button is drawn.
delete_offered(all_project_names) == Len(all_project_names) > 1

\* render_sidebar, Delete Project: manager.delete_project(current.name)
sidebar_delete(st) ==
    LET remaining == Del(st.projects, st.current_project_name)
    IN  Store(remaining, delete_reassign(Keys(remaining)))

\* What the user types into the chat input, and what a provider does with
\* the request of a turn.
MaxChatMessages == 12
MaxUIMessages == 2
UserInputs == {<<"q">>, <<"r">>}
ChatOutcomes(adapter) ==
    {o \in Outcomes(adapter) :
        \/ o.kind = "timeout"
        \/ o.kind = "text" /\ o.raw = <<"a", " ">>}

history_before_user_message(before, with_user_message) == before.messages

\* conversation_history = current_project.get_messages(), read after
\* current_project.add_message("user", user_input)
history_for_dispatch(before, with_user_message) == with_user_message.messages

record_result_on_success(project, result) ==
    IF result.success THEN add_message(project, "assistant", result.response)
    ELSE project

\* current_project.add_message("assistant", ai_response), or the same with
\* error_message: both are result["response"]
record_result(project, result) ==
    add_message(project, "assistant", result.response)

\* render_chat_interface on a submitted message: the project afterwards,
\* the events of the dispatch, and the call of send_message_to_ai with its
\* arguments and its result.
chat_turn(project, user_input, outcome) ==
    LET with_user_message == add_message(project, "user", user_input)
        conversation_history ==
            history_for_dispatch(project, with_user_message)
        use_deep_research == with_user_message.deep_research_mode
        r == send_message_to_ai(user_input, conversation_history,
                                use_deep_research, outcome)
    IN  [project |-> record_result(with_user_message, r.result),
         trace |-> r.trace,
         dispatch |-> [user_message |-> user_input,
                       conversation_history |-> conversation_history,
                       use_deep_research |-> use_deep_research,
                       result |-> r.result]]

\* The events of the page: what the user can do on what the last run drew.
NoEvent == [kind |-> "none"]
SidebarEvents ==
    {[kind |-> "provider", option |-> o] : o \in ProviderOptions}
        \cup {[kind |-> "model", model |-> m] :
                 m \in Range(OpenAIModels) \cup Range(HFModels)}
        \cup {[kind |-> "create", text |-> t] : t \in NameInputs}
        \cup {[kind |-> "switch", name |-> StripName(t)] : t \in NameInputs}
        \cup {[kind |-> "delete"]}
ProjectEvents ==
    {[kind |-> "toggle"], [kind |-> "clear"]}
        \cup {[kind |-> "chat", user_input |-> u] : u \in UserInputs}
UIEvents == {NoEvent} \cup SidebarEvents \cup ProjectEvents
ChatEvents == {NoEvent} \cup ProjectEvents

\* The widget of the event is on the page and can be used.
EventOffered(event) ==
    LET st == Store(projects, current_project_name)
    IN  \/ event.kind = "none"
        \/ /\ session_state.project_manager
           /\ CASE event.kind = "model" ->
                      event.model \in Range(
                          IF session_state.selected_api_provider = "openai"
                          THEN OpenAIModels ELSE HFModels)
                [] event.kind = "switch" -> Has(projects, event.name)
                [] event.kind \in {"toggle", "clear", "chat"} ->
                      has_current_project(st)
                [] event.kind = "delete" ->
                      /\ has_current_project(st)
                      /\ delete_offered(Keys(projects))
                [] OTHER -> TRUE

\* What st.secrets.get("API_PROVIDER", "openai").lower() can give in a run
\* that reads it.
ConfiguredProviders ==
    IF session_state.selected_api_provider = None THEN Providers
    ELSE {"openai"}
\* What the provider can do in a run that dispatches.
RunOutcomes(event) ==
    IF event.kind = "chat"
    THEN ChatOutcomes(adapter_for(session_state.selected_api_provider))
    ELSE {[kind |-> "none"]}

\* main(): one run of the script under `event`.
main(event, now) ==
    /\ EventOffered(event)
    /\ \E outcome \in RunOutcomes(event),
          configured_provider \in ConfiguredProviders :
         LET st0 == initial_store(session_state,
                                  Store(projects, current_project_name), now)
             ss1 == sidebar_configuration(
                        initialize_session_state(session_state,
                                                 configured_provider),
                        event)
             cur == current_project(st0)
             put(project) == Store(Update(st0.projects, project.name, project),
                                   st0.current_project_name)
             turn == chat_turn(cur, event.user_input, outcome)
             st1 == CASE event.kind = "create" ->
                             sidebar_create(st0, event.text, now)
                      [] event.kind = "switch" ->
                             sidebar_switch(st0, event.name)
                      [] event.kind = "toggle" ->
                             put(toggle_research_mode(cur))
                      [] event.kind = "clear" -> put(clear_messages(cur))
                      [] event.kind = "delete" -> sidebar_delete(st0)
                      [] event.kind = "chat" -> put(turn.project)
                      [] OTHER -> st0
         IN  /\ projects' = st1.projects
             /\ current_project_name' = st1.current_project_name
             /\ session_state' =
                    IF event.kind = "toggle"
                    THEN toggle_model(ss1, ~cur.deep_research_mode)
                    ELSE ss1
             /\ trace' = IF event.kind = "chat" THEN turn.trace ELSE <<>>
             /\ call' = IF event.kind = "chat"
                        THEN [op |-> "main", event |-> event,
                              dispatch |-> turn.dispatch]
                        ELSE [op |-> "main", event |-> event]
    /\ ret' = RetNone
    /\ ever_inserted' = TRUE
    /\ UNCHANGED secrets

\* Before the first run: st.session_state is empty.
UIInit ==
    /\ projects = <<>>
    /\ current_project_name = None
    /\ call = [op |-> "__init__"]
    /\ ret = RetNone
    /\ ever_inserted = FALSE
    /\ session_state = [project_manager |-> FALSE,
                        selected_api_provider |-> None,
                        selected_openai_model |-> None,
                        selected_hf_model |-> None]
    /\ \E present \in SUBSET SecretNames :
           secrets = [k \in present |-> SecretValue(k)]
    /\ trace = <<>>

\* The runs of the script under the events in `events`, with the store
\* holding at most `cap` messages.
MainFor(events, cap) ==
    \E event \in events, now \in StoreTimes :
        /\ event.kind = "chat" => SumLen(projects) + 2 <= cap
        /\ main(event, now)

\* The whole page with short transcripts.
UINext == MainFor(UIEvents, MaxUIMessages)
UISpec == UIInit /\ [][UINext]_vars

\* The chat of the default project with longer transcripts.
ChatNext == MainFor(ChatEvents, MaxChatMessages)
ChatSpec == UIInit /\ [][ChatNext]_vars

\* ------------------------------------------------------------------ claims
Succeeded(c, r, op) == c.op = op /\ r = RetBool(TRUE)
Failed(c, r, op) == c.op = op /\ r = RetBool(FALSE)

\* C1: after any sequence of create/delete/switch calls, successful or
\* failing, current_project_name is either None, and then projects is empty,
\* or a key present in projects.
C1_ActiveNameIsKeyOrEmpty ==
    \/ current_project_name = None /\ projects = <<>>
    \/ current_project_name # None /\ Has(projects, current_project_name)

\* C1 witness: deletes have emptied a store that held projects.
C1_Witness ==
    /\ Succeeded(call, ret, "delete_project")
    /\ projects = <<>>
    /\ current_project_name = None

\* C2 as claimed: a successful create selects the new project only if it is
\* the first project ever inserted; every other successful create, also one
\* made after deletes emptied the store, leaves current_project_name
\* unchanged.
C2_Original ==
    [][Succeeded(call', ret', "create_project") =>
          current_project_name' =
              IF ~ever_inserted THEN call'.name ELSE current_project_name]_vars

\* C2 as amended: a successful create selects the new project exactly when no
\* project is selected at the call, which is exactly when the store is empty
\* (before the first insert, or after deletes emptied it); every other
\* successful create leaves current_project_name unchanged.
C2_CreateSelectsWhenNothingSelected ==
    [][Succeeded(call', ret', "create_project") =>
          /\ (current_project_name = None) <=> (projects = <<>>)
          /\ current_project_name' =
                 IF projects = <<>> THEN call'.name ELSE current_project_name]_vars

\* C2 witness: a create made after deletes emptied the store selected its
\* project.
C2_Witness ==
    /\ Succeeded(call, ret, "create_project")
    /\ call.inserted_before
    /\ call.prev = None
    /\ current_project_name = call.name
    /\ Keys(projects) = <<call.name>>

\* C3: a successful delete of the current project selects the first remaining
\* project in insertion order, and None when no project remains.
C3_DeleteSelectsFirstRemaining ==
    (Succeeded(call, ret, "delete_project") /\ call.prev = call.name) =>
        current_project_name =
            IF Len(projects) > 0 THEN Keys(projects)[1] ELSE None

\* C3 witness: B, C, A were created in this order and the current project B
\* was deleted; C, the earliest created of the two that remain, is current.
C3_Witness ==
    /\ Succeeded(call, ret, "delete_project")
    /\ call.prev = call.name
    /\ call.name = "B"
    /\ Keys(projects) = <<"C", "A">>
    /\ current_project_name = "C"
\* C4: create called with a name already present returns False and leaves
\* the whole store unchanged: the projects and their order, the current
\* project, and every stored transcript with its messages, message_count and
\* deep_research_mode.
C4_CreateExistingChangesNothing ==
    [][(call'.op = "create_project" /\ Has(projects, call'.name)) =>
          /\ ret' = RetBool(FALSE)
          /\ projects' = projects
          /\ current_project_name' = current_project_name]_vars

\* C4 witness: a create of the name of a project that holds a message and
\* has research mode on has failed, next to a second project.
C4_Witness ==
    /\ Failed(call, ret, "create_project")
    /\ Len(projects) = 2
    /\ Has(projects, call.name)
    /\ Lookup(projects, call.name).message_count = 1
    /\ Lookup(projects, call.name).deep_research_mode

\* C5: switch and delete with a name absent from projects return False (a
\* bool, nothing is raised) and leave projects and current_project_name
\* unchanged; switch with a name present returns True, makes it current and
\* changes nothing else.
C5_AbsentNameFailsSwitchSelects ==
    [][/\ (call'.op \in {"switch_to_project", "delete_project"}
              /\ ~Has(projects, call'.name)) =>
             /\ ret' = RetBool(FALSE)
             /\ projects' = projects
             /\ current_project_name' = current_project_name
       /\ (call'.op = "switch_to_project" /\ Has(projects, call'.name)) =>
             /\ ret' = RetBool(TRUE)
             /\ current_project_name' = call'.name
             /\ projects' = projects]_vars

\* C5 witness: a switch to an absent name has failed on a store that holds
\* two projects, the second of them current.
C5_Witness ==
    /\ Failed(call, ret, "switch_to_project")
    /\ ~Has(projects, call.name)
    /\ Len(projects) = 2
    /\ current_project_name = Keys(projects)[2]

\* The calls that read or change one transcript, and the caller's mutation of
\* a returned object.
TranscriptOps ==
    {"add_message", "get_messages", "clear_messages", "get_summary",
     "toggle_research_mode", "get_last_message", "mutate"}
QueryOps == {"get_current_project", "get_project_count",
             "get_all_project_names", "get_all_projects_summary"}

\* C6: the selection starts unset and changes only by the listed
\* transitions: unset to n only by a successful create(n); x to another y only
\* by a successful delete(x) or switch(y); x to unset only by a successful
\* delete(x) that removes the last project.  No switch succeeds while the
\* selection is unset; deleting a project that is not current, a failing call,
\* a query and a transcript operation leave the selection unchanged.
C6_SelectionStateMachine ==
    /\ current_project_name = None
    /\ [][LET x == current_project_name
              y == current_project_name'
          IN  /\ (x = None /\ y # None) =>
                     Succeeded(call', ret', "create_project") /\ call'.name = y
              /\ (x # None /\ y # None /\ y # x) =>
                     \/ Succeeded(call', ret', "delete_project") /\ call'.name = x
                     \/ Succeeded(call', ret', "switch_to_project") /\ call'.name = y
              /\ (x # None /\ y = None) =>
                     /\ Succeeded(call', ret', "delete_project")
                     /\ call'.name = x
                     /\ projects' = <<>>
              /\ x = None => ~Succeeded(call', ret', "switch_to_project")
              /\ (\/ call'.op = "delete_project" /\ call'.name # x
                  \/ ret' = RetBool(FALSE)
                  \/ call'.op \in QueryOps \cup TranscriptOps) => y = x]_vars

\* C6 witness: a successful switch has moved the selection from one project
\* to another.
C6_Witness ==
    /\ Succeeded(call, ret, "switch_to_project")
    /\ call.prev # None
    /\ call.prev # call.name
    /\ current_project_name = call.name
\* C7: for every transcript, after any sequence of calls, message_count
\* equals the length of messages, and get_summary reports that same count.
C7_MessageCountIsLength ==
    /\ \A i \in DOMAIN projects :
           projects[i].message_count = Len(projects[i].messages)
    /\ call.op = "get_summary" =>
           ret.val.message_count = Len(Lookup(projects, call.name).messages)

\* C7 witness: get_summary has reported two messages on a transcript that
\* holds two.
C7_Witness ==
    /\ call.op = "get_summary"
    /\ ret.val.message_count = 2
    /\ Len(Lookup(projects, call.name).messages) = 2

\* C8: add_message(role, content) followed by get_messages() returns the
\* list get_messages() returned before the add, in the same order, followed
\* by {role, content}.  messages is append-only: in a step that is not a
\* clear of it, a transcript that stays in the store loses no message and
\* keeps its messages in place; only the caller's write through a returned
\* object can change a message where it stands (C10).
C8_AddAppendsAndOnlyClearRemoves ==
    [][\A n \in Names : (Has(projects, n) /\ Has(projects', n)) =>
          LET before == Lookup(projects, n)
              after == Lookup(projects', n)
          IN  /\ (call'.op = "add_message" /\ call'.name = n) =>
                     ListOf(projects', get_messages(after)) =
                         Append(ListOf(projects, get_messages(before)),
                                [role |-> call'.role, content |-> call'.content])
              /\ ~(call'.op = "clear_messages" /\ call'.name = n) =>
                     /\ Len(after.messages) >= Len(before.messages)
                     /\ call'.op = "mutate" =>
                            Len(after.messages) = Len(before.messages)
                     /\ call'.op # "mutate" =>
                            SubSeq(after.messages, 1, Len(before.messages)) =
                                before.messages]_vars

\* C8 witness: a third message was added after two different ones.
C8_Witness ==
    /\ call.op = "add_message"
    /\ LET m == Lookup(projects, call.name).messages
       IN  /\ Len(m) = 3
           /\ m[1] # m[2]
           /\ m[3] = [role |-> call.role, content |-> call.content]
           /\ m[3] # m[2]

\* C9: get_messages returns a copy: whatever the caller does to the returned
\* list or to its elements (append, remove, write a role or a content), the
\* stored messages and message_count stay as they are, and a later
\* get_messages returns the unmodified history.
C9_GetMessagesReturnsACopy ==
    [][(call.op = "get_messages" /\ call'.op = "mutate") =>
          /\ projects' = projects
          /\ ListOf(projects', get_messages(Lookup(projects', call.name))) =
                 Lookup(projects, call.name).messages]_vars

\* C9 witness: the caller has changed the list it got from get_messages of a
\* transcript of two messages, so that it differs from the stored list.
C9_Witness ==
    /\ call.op = "mutate"
    /\ ret.kind = "list"
    /\ Len(Lookup(projects, call.name).messages) = 2
    /\ Len(ret.val) = 2
    /\ ret.val # Lookup(projects, call.name).messages

\* C10 as claimed: a message is immutable once stored: no mutation by the
\* caller of a value handed out by get_messages or get_last_message changes
\* the role or content of a stored message.
C10_StoredMessagesImmutable ==
    [][call'.op = "mutate" =>
          \A i \in DOMAIN projects :
              projects'[i].messages = projects[i].messages]_vars

\* C11: after clear_messages the transcript has no messages, message_count is
\* 0 and get_last_message returns None.  get_last_message never raises: on an
\* empty transcript it returns None, and on a non-empty one it returns the
\* most recently added message: right after add_message(role, content) that
\* is {role, content}, and it stays the same stored message until the next
\* add_message or clear_messages of that transcript.
C11_ClearEmptiesAndLastIsLatest ==
    [][\A n \in Names : Has(projects', n) =>
          LET after == Lookup(projects', n)
              last == get_last_message(after)
          IN  /\ (call'.op = "clear_messages" /\ call'.name = n) =>
                     /\ after.messages = <<>>
                     /\ after.message_count = 0
                     /\ last = RetNone
              /\ after.messages = <<>> => last = RetNone
              /\ (call'.op = "add_message" /\ call'.name = n) =>
                     /\ last.kind = "msgref"
                     /\ MsgOf(projects', last) =
                            [role |-> call'.role, content |-> call'.content]
              /\ (call'.op = "get_last_message" /\ call'.name = n) =>
                     /\ ret' = last
                     /\ projects' = projects
              /\ ( /\ Has(projects, n)
                   /\ ~(call'.op \in {"add_message", "clear_messages"} /\
                            call'.name = n) ) =>
                     last = get_last_message(Lookup(projects, n))]_vars

\* C11 witness: a transcript of three messages has just been cleared.
C11_Witness ==
    /\ call.op = "clear_messages"
    /\ call.had = 3
    /\ Lookup(projects, call.name).messages = <<>>
    /\ Lookup(projects, call.name).message_count = 0

\* C12: toggle_research_mode flips deep_research_mode and changes nothing
\* else of the transcript (messages, message_count, name, created_date);
\* applied twice it gives back the original transcript.  add_message and
\* clear_messages never change deep_research_mode.
C12_ToggleFlipsOnlyTheMode ==
    [][\A n \in Names : (Has(projects, n) /\ Has(projects', n)) =>
          LET before == Lookup(projects, n)
              after == Lookup(projects', n)
          IN  /\ (call'.op = "toggle_research_mode" /\ call'.name = n) =>
                     /\ after.deep_research_mode = ~before.deep_research_mode
                     /\ after.messages = before.messages
                     /\ after.message_count = before.message_count
                     /\ after.name = before.name
                     /\ after.created_date = before.created_date
                     /\ toggle_research_mode(after) = before
              /\ toggle_research_mode(toggle_research_mode(before)) = before
              /\ (call'.op \in {"add_message", "clear_messages"} /\
                      call'.name = n) =>
                     after.deep_research_mode = before.deep_research_mode]_vars

\* C12 witness: a transcript that holds two messages has been toggled back to
\* normal mode, so it was toggled twice.
C12_Witness ==
    /\ call.op = "toggle_research_mode"
    /\ LET p == Lookup(projects, call.name)
       IN  /\ ~p.deep_research_mode
           /\ Len(p.messages) = 2
           /\ p.message_count = 2
           /\ p.created_date = "t2"

\* ------------------------------------------------------------------------
\* The dispatch layer: in a state where Dispatched holds, call holds the
\* arguments of send_message_to_ai, ret what it returned and trace what it
\* did.
Dispatched == call.op = "send_message_to_ai"
Entered == SelectSeq(trace, LAMBDA e : e.ev = "enter")
Requests == SelectSeq(trace, LAMBDA e : e.ev = "request")
Sent == Dispatched /\ Requests # <<>>
\* The key an adapter needs.
CredentialOf(adapter) ==
    IF adapter = "openai" THEN "OPENAI_API_KEY" ELSE "HF_API_KEY"

\* C13: for either adapter, when its credential is absent the result has
\* success = False and a message that names the missing credential, and no
\* request is sent to the provider, whatever the message, the history and
\* the mode.
C13_AbsentCredentialFailsWithoutRequest ==
    Dispatched =>
        LET k == CredentialOf(Entered[1].adapter)
        IN  k \notin DOMAIN secrets =>
                /\ ret.kind = "result"
                /\ ret.success = FALSE
                /\ HasWord(ret.response, k)
                /\ Requests = <<>>

\* C13 witness: the completion adapter was entered for a research-mode
\* dispatch with a history of fifteen messages while only the other
\* adapter's key was configured.
C13_Witness ==
    /\ Dispatched
    /\ Entered[1].adapter = "huggingface"
    /\ DOMAIN secrets = {"OPENAI_API_KEY"}
    /\ call.use_deep_research
    /\ Len(call.conversation_history) = 15
    /\ ~ret.success
    /\ HasWord(ret.response, "HF_API_KEY")
    /\ Requests = <<>>

\* The message a line of the completion adapter's prompt stands for.
MessageOfLine(line) ==
    [role |-> IF line[1] = "User: " THEN "user" ELSE "assistant",
     content |-> line[2]]
\* The conversational context a request carries: what lies between the
\* system prompt (the instructions) and the user's new message.
ContextOf(request) ==
    IF request.adapter = "openai"
    THEN SubSeq(request.messages, 2, Len(request.messages) - 1)
    ELSE [i \in 1..(Len(request.inputs.lines) - 1) |->
             MessageOfLine(request.inputs.lines[i])]

\* C14: for either adapter and a history of length L, the context forwarded
\* is exactly the last min(L, 10) messages of the history, in their order
\* and unaltered; a history of 15 messages is cut to its last 10.
C14_ContextIsLastTenMessages ==
    Sent =>
        LET h == call.conversation_history
            L == Len(h)
            n == IF L < 10 THEN L ELSE 10
            context == ContextOf(Requests[1])
        IN  /\ Len(context) = n
            /\ \A i \in 1..n : context[i] = h[L - n + i]

\* C14 witness: the chat adapter forwarded a history of 15 messages.
C14_Witness ==
    /\ Sent
    /\ Requests[1].adapter = "openai"
    /\ Len(call.conversation_history) = 15
    /\ Len(ContextOf(Requests[1])) = 10
    /\ ContextOf(Requests[1])[1] = call.conversation_history[6]
    /\ ContextOf(Requests[1])[1] # call.conversation_history[1]

\* The generation parameters a request carries.
ParamsOf(request) ==
    IF request.adapter = "openai"
    THEN <<request.temperature, request.max_tokens>>
    ELSE <<request.parameters.temperature, request.parameters.max_length>>

\* C15: the generation parameters depend only on the mode and the adapter:
\* research mode gives temperature 0.5 and a maximum output of 2500 (chat)
\* or 1500 (completion), normal mode temperature 0.7 and 1000 or 500.
C15_ParametersFollowModeAndAdapter ==
    Sent =>
        ParamsOf(Requests[1]) =
            CASE Requests[1].adapter = "openai" /\ call.use_deep_research ->
                     <<"0.5", 2500>>
              [] Requests[1].adapter = "openai" /\ ~call.use_deep_research ->
                     <<"0.7", 1000>>
              [] Requests[1].adapter # "openai" /\ call.use_deep_research ->
                     <<"0.5", 1500>>
              [] OTHER -> <<"0.7", 500>>

\* C15 witness: a research-mode request of the chat adapter.
C15_Witness ==
    /\ Sent
    /\ Requests[1].adapter = "openai"
    /\ call.use_deep_research
    /\ ParamsOf(Requests[1]) = <<"0.5", 2500>>
    /\ Len(call.conversation_history) = 3

\* C16: each dispatch enters exactly one adapter, chosen by the provider
\* value alone: the chat adapter for "openai", the completion adapter for
\* every other value; the other adapter is not called, and what the adapter
\* returns is returned unchanged.
C16_ExactlyOneAdapterByProvider ==
    Dispatched =>
        LET provider == session_state.selected_api_provider
            chosen == IF provider = "openai" THEN "openai" ELSE "huggingface"
        IN  /\ Len(Entered) = 1
            /\ \A i \in DOMAIN trace :
                   trace[i].ev \in {"enter", "request"} =>
                       trace[i].adapter = chosen
            /\ \E outcome \in Outcomes(chosen) :
                   LET r == IF chosen = "openai"
                            THEN send_message_to_openai(
                                     call.user_message,
                                     call.conversation_history,
                                     call.use_deep_research, outcome)
                            ELSE send_message_to_huggingface(
                                     call.user_message,
                                     call.conversation_history,
                                     call.use_deep_research, outcome)
                   IN  ret = r.result /\ trace = r.trace

\* C16 witness: with a provider value that names neither adapter, the
\* completion adapter sent the request and its answer was returned.
C16_Witness ==
    /\ Sent
    /\ session_state.selected_api_provider = "local"
    /\ Entered = <<Enter("huggingface")>>
    /\ Requests[1].adapter = "huggingface"
    /\ ret.success

\* What the provider did with the request of the dispatch.
TheOutcome == trace[3].outcome
\* The request had no successful answer.
Failure == Sent /\ TheOutcome.kind # "text"
\* The words of the error a failed request ended with, and the class of
\* failure they tell of.
ErrorWords(outcome) ==
    CASE outcome.kind = "raises" -> outcome.error
      [] outcome.kind = "bad_body" -> outcome.error.text
      [] outcome.kind = "status" -> <<ToString(outcome.status_code)>>
      [] OTHER -> <<outcome.kind>>
FailureClass(outcome) ==
    LET w == ErrorWords(outcome)
    IN  IF \/ HasWord(w, "Authentication")
           \/ HasWords(w, "API", "key")
           \/ HasWord(w, "401")
        THEN "authentication"
        ELSE IF \/ HasWord(w, "quota") \/ HasWord(w, "Billing")
                \/ HasWord(w, "429")
        THEN "quota"
        ELSE "generic"
\* The class a failure message speaks of.
MessageClass(response) ==
    IF HasWord(response, "(x) Invalid OpenAI API key. Please check your ")
    THEN "authentication"
    ELSE IF HasWord(response, "(x) OpenAI API quota exceeded. Please check ")
    THEN "quota"
    ELSE "generic"

C18_DispatchAlwaysReturnsAResult ==
    Dispatched =>
        /\ ret.kind = "result"
        /\ DOMAIN ret = {"kind", "success", "response"}
        /\ ret.success \in BOOLEAN
        /\ ret.response \in Seq(STRING)
        /\ Sent =>
               /\ Requests[1].timeout = 30
               /\ ret.success = (TheOutcome.kind = "text")
               /\ TheOutcome.kind = "timeout" => ret.success = FALSE

\* C18 witness: the completion adapter's request timed out.
C18_Witness ==
    /\ Sent
    /\ Requests[1].adapter = "huggingface"
    /\ TheOutcome.kind = "timeout"
    /\ ret.kind = "result"
    /\ ~ret.success
    /\ HasWord(ret.response, "30")

IsStripped(r, raw) ==
    \E i, j \in 0..Len(raw) :
        /\ i + j <= Len(raw)
        /\ r = SubSeq(raw, i + 1, Len(raw) - j)
        /\ \A k \in 1..i : raw[k] \in Whitespace
        /\ \A k \in (Len(raw) - j + 1)..Len(raw) : raw[k] \in Whitespace
        /\ r # <<>> => (r[1] \notin Whitespace /\ r[Len(r)] \notin Whitespace)

\* C20: when the provider answers with a text, either adapter returns
\* success = True and, as response, that text without its leading and
\* trailing whitespace and otherwise unchanged.
C20_SuccessReturnsStrippedText ==
    (Sent /\ TheOutcome.kind = "text") =>
        /\ ret.kind = "result"
        /\ ret.success = TRUE
        /\ IsStripped(ret.response, TheOutcome.raw)

\* C20 witness: the chat adapter got a text with whitespace on both sides.
C20_Witness ==
    /\ Sent
    /\ Requests[1].adapter = "openai"
    /\ TheOutcome = [kind |-> "text", raw |-> <<" ", "a", "\n">>]
    /\ ret.success
    /\ ret.response = <<"a">>

\* ------------------------------------------------------------------------
\* The UI flow: in a state where Submitted holds, the last run of the script
\* handled a message typed into the chat input; call.dispatch is its call of
\* send_message_to_ai.
Submitted == call.op = "main" /\ call.event.kind = "chat"
\* A transcript of complete turns: user, assistant, user, assistant, ...
Alternates(messages) ==
    /\ Len(messages) % 2 = 0
    /\ \A i \in DOMAIN messages :
           messages[i].role = IF i % 2 = 1 THEN "user" ELSE "assistant"

\* C21: every submission appends exactly two messages to the active
\* transcript: the user's message with role user, then one assistant message
\* that holds the response of the dispatch, its text on success and its error
\* message on failure; the dispatch gets the research mode the active project
\* has in that run.  So after every run every transcript has even length and
\* alternates user, assistant.
C21_SubmissionAppendsUserThenAssistant ==
    [][ /\ Submitted' =>
             LET before == Lookup(projects, current_project_name)
                 after == Lookup(projects', current_project_name')
                 d == call'.dispatch
             IN  /\ current_project_name' = current_project_name
                 /\ after.messages =
                        before.messages \o
                            <<[role |-> "user",
                               content |-> call'.event.user_input],
                              [role |-> "assistant",
                               content |-> d.result.response]>>
                 /\ d.use_deep_research = before.deep_research_mode
                 /\ after.deep_research_mode = before.deep_research_mode
                 /\ \A i \in DOMAIN projects' :
                        projects'[i].name # current_project_name =>
                            projects'[i] = projects[i]
        /\ \A i \in DOMAIN projects' : Alternates(projects'[i].messages)
      ]_vars

\* C21 witness: the second submission to a project in research mode failed
\* and its error message was appended as the fourth message.
C21_Witness ==
    /\ Submitted
    /\ ~call.dispatch.result.success
    /\ call.dispatch.use_deep_research
    /\ LET m == Lookup(projects, current_project_name).messages
       IN  /\ Len(m) = 4
           /\ m[3] = [role |-> "user", content |-> call.event.user_input]
           /\ m[4] = [role |-> "assistant",
                       content |-> call.dispatch.result.response]
           /\ m[2].content # m[4].content

\* The list of names `new` is `old` with one name taken out or one name
\* added at the end, or `old` itself: the names that stay keep their order.
KeepsOrder(old, new) ==
    \/ new = old
    \/ \E n \in Names :
          \/ new = Append(old, n)
          \/ new = SelectSeq(old, LAMBDA k : k # n)

\* C22: get_all_project_names lists the projects in insertion order, and the
\* order is stable: two projects that both stay keep their relative order,
\* switch_to_project and failed calls leave the list as it is, a created
\* name comes last, also when it was deleted before; get_all_projects_summary
\* gives one summary per project in the order of the names, and
\* get_project_count is the length of both.
C22_NamesInInsertionOrder ==
    [][LET old == Keys(projects)
           new == Keys(projects')
       IN  /\ KeepsOrder(old, new)
           /\ ( \/ call'.op = "switch_to_project"
                \/ ret' = RetBool(FALSE) ) => new = old
           /\ Succeeded(call', ret', "create_project") =>
                  new = Append(old, call'.name)
           /\ call'.op = "get_all_project_names" =>
                  ret'.val = new /\ new = old
           /\ call'.op = "get_all_projects_summary" =>
                  /\ Len(ret'.val) = Len(new)
                  /\ \A i \in DOMAIN new :
                         /\ ret'.val[i].name = new[i]
                         /\ ret'.val[i] = get_summary(projects'[i])
           /\ call'.op = "get_project_count" => ret'.val = Len(new)
      ]_vars

\* C22 witness: "A", the first of three projects, was deleted and created
\* again, and is now the last of the names.
C22_Witness ==
    /\ Succeeded(call, ret, "create_project")
    /\ call.recreated
    /\ call.name = "A"
    /\ Keys(projects) = <<"B", "C", "A">>
    /\ current_project_name = "B"

\* The run that drew the page has finished: the store exists.
Drawn == session_state.project_manager
\* The strongest model of a provider, as the Deep Research toggle selects it.
StrongestModel(provider) ==
    IF provider = "openai" THEN "gpt-4" ELSE "meta-llama/Llama-2-7b-chat-hf"
\* The model a dispatch would use now.
DispatchModel ==
    IF session_state.selected_api_provider = "openai"
    THEN session_state.selected_openai_model
    ELSE session_state.selected_hf_model

\* C23 as claimed: whenever Deep Research Mode is on for the active project,
\* the model used for dispatch is the strongest model of the selected
\* provider, after any sequence of UI actions.
C23_ResearchModeUsesStrongestModel ==
    (Drawn /\ has_current_project(Store(projects, current_project_name))) =>
        (Lookup(projects, current_project_name).deep_research_mode =>
             DispatchModel = StrongestModel(session_state.selected_api_provider))

\* C24: transcripts are independent.  add_message, clear_messages and
\* toggle_research_mode of one transcript leave every other transcript as it
\* is, and leave the names of the store and the selection as they are;
\* create_project, switch_to_project and delete_project leave every
\* transcript that stays in the store as it is.
C24_TranscriptsAreIndependent ==
    [][ /\ call'.op \in {"add_message", "clear_messages",
                         "toggle_research_mode"} =>
             /\ Keys(projects') = Keys(projects)
             /\ current_project_name' = current_project_name
             /\ \A i \in DOMAIN projects :
                    projects[i].name # call'.name =>
                        projects'[i] = projects[i]
        /\ call'.op \in {"create_project", "switch_to_project",
                         "delete_project"} =>
             \A n \in Names :
                 (Has(projects, n) /\ Has(projects', n)) =>
                     Lookup(projects', n) = Lookup(projects, n)
      ]_vars

\* C24 witness: "B" was toggled while "A", the selected project, held a
\* message and was in research mode.
C24_Witness ==
    /\ call.op = "toggle_research_mode"
    /\ call.name = "B"
    /\ Has(projects, "A")
    /\ current_project_name = "A"
    /\ Lookup(projects, "A").message_count = 1
    /\ Lookup(projects, "A").deep_research_mode
    /\ Lookup(projects, "B").deep_research_mode

\* C25: the transcript a successful create_project(name) stores has no
\* messages, message_count 0 and research mode off, also when the name was
\* in use before: after delete_project(name) and create_project(name), the
\* project found under the name has none of the deleted one's messages and
\* not its mode.
C25_CreatedTranscriptIsFresh ==
    [][Succeeded(call', ret', "create_project") =>
          LET created == Lookup(projects', call'.name)
          IN  /\ ~Has(projects, call'.name)
              /\ created.name = call'.name
              /\ created.messages = <<>>
              /\ created.message_count = 0
              /\ created.deep_research_mode = FALSE
              /\ ListOf(projects', get_messages(created)) = <<>>
              /\ get_last_message(created) = RetNone]_vars

\* C25 witness: the name of a project that held messages and was in research
\* mode when it was deleted has been created again.
C25_Witness ==
    /\ Succeeded(call, ret, "create_project")
    /\ call.recreated
    /\ Lookup(projects, call.name).messages = <<>>
    /\ ~Lookup(projects, call.name).deep_research_mode

\* The three failure messages of the chat adapter.
InvalidKeyMessage ==
    <<"(x) Invalid OpenAI API key. Please check your ", "OPENAI_API_KEY",
      " in secrets.toml">>
QuotaMessage ==
    <<"(x) OpenAI API quota exceeded. Please check ", "your billing at ",
      "https://platform.openai.com/account/billing">>
GenericMessage(error_message) == <<"(x) OpenAI API Error: ">> \o error_message

\* C26: the chat adapter tests the classes in a fixed order on the
\* lower-cased text of the error: a text with "authentication" or "api key"
\* gives the invalid-key message, also when it has "quota" or "billing";
\* otherwise a text with "quota" or "billing" gives the quota message;
\* otherwise the generic message with the text.  Every failure gets exactly
\* one of the three.
C26_ClassesTestedInOrder ==
    (Failure /\ Requests[1].adapter = "openai") =>
        LET error_message == openai_try(TheOutcome).text
            l == lower(error_message)
            speaks_of_key == HasWord(l, "authentication")
                                 \/ HasWords(l, "api", "key")
            speaks_of_quota == HasWord(l, "quota") \/ HasWord(l, "billing")
        IN  /\ ret.success = FALSE
            /\ speaks_of_key => ret.response = InvalidKeyMessage
            /\ (~speaks_of_key /\ speaks_of_quota) =>
                   ret.response = QuotaMessage
            /\ (~speaks_of_key /\ ~speaks_of_quota) =>
                   ret.response = GenericMessage(error_message)
            /\ Cardinality({m \in {InvalidKeyMessage, QuotaMessage,
                                    GenericMessage(error_message)} :
                               ret.response = m}) = 1

\* C26 witness: the error text speaks of the quota and of the API key, in
\* capitals, and the invalid-key message was returned.
C26_Witness ==
    /\ Failure
    /\ Requests[1].adapter = "openai"
    /\ TheOutcome.kind = "raises"
    /\ HasWord(TheOutcome.error, "quota")
    /\ HasWords(TheOutcome.error, "API", "key")
    /\ ret.response = InvalidKeyMessage

\* A run of the script has just ended, and the event it ran under.
Ran == call.op = "main"
RanUnder(kinds) == Ran /\ call.event.kind \in kinds

\* C27: the store is constructed once per session.  The first run of
\* initialize_session_state makes a ProjectManager whose only project is
\* "General Questions", active; every later run works on the store the run
\* before left: a run without an event on the projects leaves projects,
\* messages, modes and selection as they were, a run with one changes only
\* what its event is about, and the default project is not created again
\* unless the user creates it.
C27_StoreConstructedOncePerSession ==
    [][call'.op = "main" =>
          IF ~session_state.project_manager
          THEN /\ \E now \in StoreTimes :
                      projects' = <<ConversationProject(DefaultProject, now)>>
               /\ current_project_name' = DefaultProject
               /\ session_state'.project_manager
          ELSE LET kind == call'.event.kind
               IN  /\ session_state'.project_manager
                   /\ kind \in {"none", "provider", "model"} =>
                          UNCHANGED <<projects, current_project_name>>
                   /\ \A i \in DOMAIN projects :
                          LET name == projects[i].name
                          IN  IF Has(projects', name)
                              THEN \/ Lookup(projects', name) = projects[i]
                                   \/ /\ name = current_project_name
                                      /\ kind \in {"toggle", "clear", "chat"}
                              ELSE /\ kind = "delete"
                                   /\ name = current_project_name
                   /\ current_project_name' # current_project_name =>
                          kind \in {"create", "switch", "delete"}
                   /\ \A i \in DOMAIN projects' :
                          ~Has(projects, projects'[i].name) =>
                              /\ kind = "create"
                              /\ projects'[i].name = StripName(call'.event.text)
                              /\ i = Len(projects')]_vars

\* C27 witness: a run without an event has ended with the store an earlier
\* run left: the default project deleted, project "A" selected, in research
\* mode, with its messages.
C27_Witness ==
    /\ RanUnder({"none"})
    /\ ~Has(projects, DefaultProject)
    /\ current_project_name = "A"
    /\ Lookup(projects, "A").deep_research_mode
    /\ Lookup(projects, "A").message_count = 2

\* The user's new message as a request carries it after the context.
NewMessageOf(request) ==
    IF request.adapter = "openai"
    THEN request.messages[Len(request.messages)]
    ELSE MessageOfLine(request.inputs.lines[Len(request.inputs.lines)])

\* C28: in the UI the history is read after the user's message was appended
\* to the transcript, so the history handed to the dispatch ends with that
\* message, and the adapter appends the message once more: every request
\* carries the new message twice in succession, as the last message of the
\* context and as the new message.  The rest of the context is the last
\* messages of the earlier turns, at most 9 of them.
C28_RequestCarriesNewMessageTwice ==
    Submitted =>
        LET u == [role |-> "user", content |-> call.event.user_input]
            h == call.dispatch.conversation_history
            after == Lookup(projects, current_project_name).messages
            earlier == SubSeq(after, 1, Len(after) - 2)
            k == IF Len(earlier) < 9 THEN Len(earlier) ELSE 9
        IN  /\ call.dispatch.user_message = call.event.user_input
            /\ h = Append(earlier, u)
            /\ Requests # <<>> =>
                   LET context == ContextOf(Requests[1])
                   IN  /\ Len(context) = k + 1
                       /\ context[k + 1] = u
                       /\ NewMessageOf(Requests[1]) = u
                       /\ \A i \in 1..k :
                              context[i] = earlier[Len(earlier) - k + i]

\* C28 witness: a message was submitted to a transcript of 10 messages, and
\* the request carried the last 9 of them and the new message twice.
C28_Witness ==
    /\ Submitted
    /\ Requests # <<>>
    /\ Len(call.dispatch.conversation_history) = 11
    /\ Len(ContextOf(Requests[1])) = 10
    /\ ContextOf(Requests[1])[1] = call.dispatch.conversation_history[2]
    /\ ContextOf(Requests[1])[10].content = call.event.user_input
    /\ NewMessageOf(Requests[1]).content = call.event.user_input

\* C29: under the UI flow, which creates the default project in the first
\* run and offers Delete only for the active project and only while there
\* is more than one project, after every run the store is not empty, the
\* active name names an entry of the store and get_current_project returns
\* a project: the "No project selected" branch of the chat is never taken.
C29_UIAlwaysHasAnActiveProject ==
    Ran =>
        /\ projects # <<>>
        /\ current_project_name # None
        /\ Has(projects, current_project_name)
        /\ has_current_project(Store(projects, current_project_name))

\* C29 witness: Delete Project has run on a store of two projects, one is
\* left, and it is the active one.
C29_Witness ==
    /\ RanUnder({"delete"})
    /\ Len(projects) = 1
    /\ current_project_name = projects[1].name
    /\ current_project_name # DefaultProject

\* C30: in every state that create_project, delete_project and
\* switch_to_project can reach, get_current_project returns None exactly
\* when the store has no projects, and otherwise the project whose name is
\* current_project_name; its check for a selection that is not a key of the
\* store is never the one that decides.
C30_ActiveIsAbsentOnlyWhenEmpty ==
    /\ (current_project_name = None) <=> (projects = <<>>)
    /\ ~(current_project_name # None /\ ~Has(projects, current_project_name))
    /\ call.op = "get_current_project" =>
           /\ (ret = RetNone) <=> (projects = <<>>)
           /\ projects # <<>> =>
                  /\ ret = RetProject(current_project_name)
                  /\ Lookup(projects, ret.proj).name = current_project_name

\* C30 witness: get_current_project has returned the selected project of a
\* store of two or more, and the selected project is not the first.
C30_Witness ==
    /\ call.op = "get_current_project"
    /\ Len(projects) >= 2
    /\ current_project_name # projects[1].name
    /\ ret = RetProject(current_project_name)
====
